---- MODULE Spec2Model ----
(***************************************************************************)
(* Model of vumi/workers/smpp/server.py: the SmscServer protocol, a        *)
(* length-prefixed frame buffer (popData), the command dispatcher          *)
(* (handleData and the three handlers) and the read loop (dataReceived).   *)
(*                                                                         *)
(* Bytes are naturals 0..255, byte strings are sequences of bytes.  The    *)
(* PDU codec (smpp.pdu_builder) is a library outside the repository; it is *)
(* modelled by the wire layout of the header (four big-endian 32-bit       *)
(* fields) and by the fields the handlers read.                            *)
(*                                                                         *)
(* The second part models vumi/blinkenlights/metrics.py: MetricManager     *)
(* (register, _publish_metrics), Metric.manage, Count and Timer (a Sum).   *)
(* Every call runs to its end in the reactor thread, so a call is one      *)
(* step.  Times and durations are whole ticks of the clock.                *)
(***************************************************************************)
EXTENDS Integers, Sequences, FiniteSets, TLC

\* ------------------------------------------------------------------ bounds
\* Bytes a peer sends on one connection.
MaxBytes == 48
\* Size of the pool uuid.uuid4() draws from.
NumIds == 2
\* Calls made on the metrics objects in one run.
MaxCalls == 5
\* Ticks of the clock time.time() reads.
MaxClock == 2
\* `with timer:` blocks open at once.
MaxDepth == 1

\* ------------------------------------------------------- program constants
\* popData reads the length prefix only once 16 bytes are buffered.
HeaderLen == 16
\* delivery_report's fixed sequence number.
DeliverySeq == 1

Conns == {1, 2}
MsgIds == 1..NumIds

VARIABLES
    script,     \* script[c]: the frames the peer of connection c sends, in order
    sent,       \* sent[c]: how many bytes of the peer's stream were delivered
    smsc,       \* smsc[c]: the SmscServer instance's attributes (its __dict__)
    data,       \* data[c]: dataReceived's local variable `data`
    pc,         \* pc[c]: position of connection c's dataReceived call
    transport,  \* transport[c]: the PDUs written with transport.write, in order
    logged,     \* logged[c]: the log.msg entries made for connection c
    closed,     \* closed[c]: the connection was dropped after an exception
    popped,     \* popped[c]: history of the frames popData returned, in order
    name,       \* name[x]: Metric.name of metric x
    metrics,    \* metrics[m]: MetricManager._metrics of manager m
    value,      \* value[x]: Count._value or Sum._value of metric x
    count,      \* Sum._count of the timer
    start_time, \* Timer._start_time
    now,        \* what time.time() returns
    call,       \* the last call made: what it was, raised and returned
    block,      \* how many `with timer:` blocks are open
    incs,       \* history: how many Count.inc calls were made
    polled      \* history: the sum of what Count.poll returned

serverVars == <<script, sent, smsc, data, pc, transport, logged, closed, popped>>
metricVars ==
    <<name, metrics, value, count, start_time, now, call, block, incs, polled>>
vars == <<serverVars, metricVars>>

\* ----------------------------------------------------------------- bytes
RECURSIVE Flatten(_)
Flatten(ss) == IF ss = <<>> THEN <<>> ELSE Head(ss) \o Flatten(Tail(ss))

Drop(s, n) == SubSeq(s, n + 1, Len(s))
Take(s, n) == SubSeq(s, 1, n)

\* Four bytes, big-endian, of an unsigned 32-bit number.
U32(n) == << (n \div 16777216) % 256, (n \div 65536) % 256,
             (n \div 256) % 256, n % 256 >>

\* int(binascii.b2a_hex(s[0:4]), 16): the big-endian value of the first
\* (at most four) bytes of s; int('', 16) raises, which no caller reaches.
RECURSIVE BE(_)
BE(s) == IF s = <<>> THEN 0 ELSE BE(Take(s, Len(s) - 1)) * 256 + s[Len(s)]

command_length_of(s) == BE(Take(s, IF Len(s) < 4 THEN Len(s) ELSE 4))

\* ------------------------------------------------------------- the codec
\* The peer's encoder: header of four 32-bit fields, then the parameters.
\* `declared` is the value the peer writes in the length field.
RawFrame(declared, cmd, status, seq, body) ==
    U32(declared) \o U32(cmd) \o U32(status) \o U32(seq) \o body

Frame(cmd, status, seq, body) ==
    RawFrame(HeaderLen + Len(body), cmd, status, seq, body)

\* A C-octet string: the bytes up to the first NUL.
RECURSIVE CString(_)
CString(s) ==
    IF s = <<>> \/ Head(s) = 0 THEN <<>> ELSE <<Head(s)>> \o CString(Tail(s))

command_id_name(n) ==
    CASE n = 9  -> "bind_transceiver"
      [] n = 4  -> "submit_sm"
      [] n = 21 -> "enquire_link"
      [] n = 5  -> "deliver_sm"
      [] OTHER  -> "other"

command_status_name(n) ==
    CASE n = 0 -> "ESME_ROK"
      [] n = 8 -> "ESME_RSYSERR"
      [] OTHER -> "other"

\* A parameter block in which no C-octet string ends.
Unterminated(body) == \A i \in 1..Len(body) : body[i] # 0

\* unpack_pdu fails on a span too short to hold a header, and on a bind
\* whose parameters do not hold a terminated system_id.
DecodeFault(frame) ==
    IF Len(frame) < HeaderLen THEN TRUE
    ELSE /\ BE(SubSeq(frame, 5, 8)) = 9
         /\ Unterminated(Drop(frame, HeaderLen))

\* unpack_pdu(data) for a span that holds a header.
unpack_pdu(frame) ==
    [ command_length  |-> BE(SubSeq(frame, 1, 4)),
      command_id      |-> command_id_name(BE(SubSeq(frame, 5, 8))),
      command_status  |-> command_status_name(BE(SubSeq(frame, 9, 12))),
      sequence_number |-> BE(SubSeq(frame, 13, 16)),
      body            |-> Drop(frame, HeaderLen) ]

\* pdu['body']['mandatory_parameters']['system_id'] of a bind: the first
\* C-octet string of the parameters.
system_id_of(pdu) == CString(pdu.body)

\* Outbound PDUs, as the builders of smpp.pdu_builder make them.
BindTransceiverResp(sequence_number, system_id) ==
    [ command_id |-> "bind_transceiver_resp", command_status |-> "ESME_ROK",
      sequence_number |-> sequence_number, body |-> [system_id |-> system_id] ]

EnquireLinkResp(sequence_number) ==
    [ command_id |-> "enquire_link_resp", command_status |-> "ESME_ROK",
      sequence_number |-> sequence_number, body |-> [none |-> TRUE] ]

SubmitSMResp(sequence_number, message_id) ==
    [ command_id |-> "submit_sm_resp", command_status |-> "ESME_ROK",
      sequence_number |-> sequence_number, body |-> [message_id |-> message_id] ]

DeliverSM(sequence_number, short_message) ==
    [ command_id |-> "deliver_sm", command_status |-> "ESME_ROK",
      sequence_number |-> sequence_number,
      body |-> [short_message |-> short_message] ]

\* ------------------------------------------------------------ SmscServer
None == [none |-> TRUE, bytes |-> <<>>]
Some(b) == [none |-> FALSE, bytes |-> b]

\* SmscServer.__init__: the instance gets one attribute, datastream = ''.
NewSmscServer == [datastream |-> <<>>]

\* buildProtocol handing every connection the same SmscServer.
buildProtocol_shared(c) == CHOOSE i \in Conns : \A j \in Conns : i <= j

\* SmscServerFactory.buildProtocol: the instance serving connection c, a
\* new SmscServer() for each.
buildProtocol(c) == c

\* popData with the completeness test off by one: a frame whose last byte
\* has just arrived is not returned.
popData_strict(datastream) ==
    IF Len(datastream) >= HeaderLen
    THEN LET command_length == command_length_of(datastream)
         IN  IF Len(datastream) > command_length
             THEN [ data |-> Some(Take(datastream, command_length)),
                    datastream |-> Drop(datastream, command_length) ]
             ELSE [ data |-> None, datastream |-> datastream ]
    ELSE [ data |-> None, datastream |-> datastream ]

\* popData without the completeness test: the slices give what is there.
popData_unchecked(datastream) ==
    IF Len(datastream) >= HeaderLen
    THEN LET command_length == command_length_of(datastream)
             n == IF command_length > Len(datastream)
                  THEN Len(datastream) ELSE command_length
         IN  [ data |-> Some(Take(datastream, n)),
               datastream |-> Drop(datastream, n) ]
    ELSE [ data |-> None, datastream |-> datastream ]

\* popData cutting one byte too many off the buffer.
popData_lossy(datastream) ==
    IF Len(datastream) >= HeaderLen
    THEN LET command_length == command_length_of(datastream)
         IN  IF Len(datastream) >= command_length
             THEN [ data |-> Some(Take(datastream, command_length)),
                    datastream |-> Drop(datastream,
                        IF command_length < Len(datastream)
                        THEN command_length + 1 ELSE command_length) ]
             ELSE [ data |-> None, datastream |-> datastream ]
    ELSE [ data |-> None, datastream |-> datastream ]

\* SmscServer.popData on a buffer: the value returned and the buffer left.
popData(datastream) ==
    IF Len(datastream) >= HeaderLen
    THEN LET command_length == command_length_of(datastream)
         IN  IF Len(datastream) >= command_length
             THEN [ data |-> Some(Take(datastream, command_length)),
                    datastream |-> Drop(datastream, command_length) ]
             ELSE [ data |-> None, datastream |-> datastream ]
    ELSE [ data |-> None, datastream |-> datastream ]

\* The body text delivery_report formats.  The two datetime.now() stamps
\* are kept as their format, "%y%m%d%H%M%S": the clock is not modelled.
short_message_of(message_id) ==
    [ id |-> message_id, sub |-> "001", dlvrd |-> "001",
      submit_date |-> "%y%m%d%H%M%S", done_date |-> "%y%m%d%H%M%S",
      stat |-> "DELIVRD", err |-> "000", text |-> "" ]

\* Each handler is the sequence of PDUs it passes to sendPDU, in order.
delivery_report(message_id) ==
    << DeliverSM(DeliverySeq, short_message_of(message_id)) >>

\* handle_bind_transceiver answering without the identity it was given.
handle_bind_transceiver_anonymous(pdu) ==
    IF pdu.command_status = "ESME_ROK"
    THEN << BindTransceiverResp(pdu.sequence_number, << >>) >>
    ELSE << >>

handle_bind_transceiver(pdu) ==
    IF pdu.command_status = "ESME_ROK"
    THEN << BindTransceiverResp(pdu.sequence_number, system_id_of(pdu)) >>
    ELSE << >>

\* handle_enquire_link without the test of command_status.
handle_enquire_link_any_status(pdu) ==
    << EnquireLinkResp(pdu.sequence_number) >>

\* handle_enquire_link answering with a sequence number of its own, as
\* delivery_report does.
handle_enquire_link_own_seq(pdu) ==
    IF pdu.command_status = "ESME_ROK"
    THEN << EnquireLinkResp(DeliverySeq) >>
    ELSE << >>

handle_enquire_link(pdu) ==
    IF pdu.command_status = "ESME_ROK"
    THEN << EnquireLinkResp(pdu.sequence_number) >>
    ELSE << >>

\* handle_submit_sm with a delivery report that takes the sequence number
\* of the request.
handle_submit_sm_echoing_report(pdu, message_id) ==
    IF pdu.command_status = "ESME_ROK"
    THEN << SubmitSMResp(pdu.sequence_number, message_id),
            DeliverSM(pdu.sequence_number, short_message_of(message_id)) >>
    ELSE << >>

\* handle_submit_sm with its two calls in the other order.
handle_submit_sm_report_first(pdu, message_id) ==
    IF pdu.command_status = "ESME_ROK"
    THEN delivery_report(message_id)
         \o << SubmitSMResp(pdu.sequence_number, message_id) >>
    ELSE << >>

\* message_id is the value str(uuid.uuid4()) returned.
handle_submit_sm(pdu, message_id) ==
    IF pdu.command_status = "ESME_ROK"
    THEN << SubmitSMResp(pdu.sequence_number, message_id) >>
         \o delivery_report(message_id)
    ELSE << >>

\* handleData with the enquire_link branch left out, as the deliver_sm
\* branch is.
handleData_no_enquire_link(pdu, message_id) ==
    (IF pdu.command_id = "bind_transceiver"
        THEN handle_bind_transceiver(pdu) ELSE << >>)
    \o (IF pdu.command_id = "submit_sm"
        THEN handle_submit_sm(pdu, message_id) ELSE << >>)

\* handleData after unpack_pdu: three independent ifs on command_id.
handleData(pdu, message_id) ==
    (IF pdu.command_id = "bind_transceiver"
        THEN handle_bind_transceiver(pdu) ELSE << >>)
    \o (IF pdu.command_id = "submit_sm"
        THEN handle_submit_sm(pdu, message_id) ELSE << >>)
    \o (IF pdu.command_id = "enquire_link"
        THEN handle_enquire_link(pdu) ELSE << >>)

\* handleData with a bind handler that keeps the identity of a successful
\* bind on the instance (self.system_id = system_id).
attributes_after_handleData_recording(self, pdu) ==
    IF pdu.command_id = "bind_transceiver" /\ pdu.command_status = "ESME_ROK"
    THEN [a \in DOMAIN self \cup {"system_id"} |->
             IF a = "system_id" THEN system_id_of(pdu) ELSE self[a]]
    ELSE self

\* The instance's attributes after handleData(pdu): no handler assigns to
\* self, so they are the attributes before.
attributes_after_handleData(self, pdu) == self

\* log.msg entries.
Incoming(pdu) == [dir |-> "INCOMING", pdu |-> pdu]
Outgoing(pdu) == [dir |-> "OUTGOING", pdu |-> pdu]

\* sendPDU for each PDU of outs: one log entry and one transport.write each.
sendPDU_logged(outs) == [i \in 1..Len(outs) |-> Outgoing(outs[i])]

\* ------------------------------------------------------------- the peers
Stream(c) == Flatten(script[c])
Delivered(c) == Take(Stream(c), sent[c])

\* bind_transceiver parameters: system_id, password, system_type (C-octet
\* strings), interface_version, addr_ton, addr_npi, address_range.
BindBody(system_id) == system_id \o <<0>> \o <<0, 0, 0, 0, 0, 0>>

Identities == { <<102>>, <<102, 111>> }
SeqNums == {1, 7}

ValidFrames ==
       { Frame(9, st, sq, BindBody(i)) :
            st \in {0}, sq \in SeqNums, i \in Identities }
    \cup { Frame(9, 8, 7, BindBody(<<102>>)) }
    \cup { Frame(4, 0, sq, <<0>>) : sq \in SeqNums }
    \cup { Frame(4, 8, 1, <<0>>) }
    \cup { Frame(21, 0, sq, <<>>) : sq \in SeqNums }
    \cup { Frame(21, 8, 7, <<>>) }
    \cup { Frame(5, 0, 7, <<0>>), Frame(3, 0, 1, <<>>), Frame(3, 8, 7, <<>>) }

\* Sixteen bytes whose length field announces less than a header.
ShortFrames == { RawFrame(n, 21, 0, 7, <<>>) : n \in {0, 4} }

\* Well-framed spans the codec cannot decode: a bind with an unterminated
\* system_id.
GarbledFrames == { Frame(9, 0, 7, <<102>>) }

PeerFrames == ValidFrames \cup ShortFrames \cup GarbledFrames

RECURSIVE SeqsUpTo(_, _)
SeqsUpTo(S, n) ==
    IF n = 0 THEN { << >> }
    ELSE LET shorter == SeqsUpTo(S, n - 1)
         IN  shorter \cup { Append(s, x) : s \in shorter, x \in S }

\* Every sequence of peer frames of at most MaxBytes bytes in all.
Scripts ==
    { s \in SeqsUpTo(PeerFrames, MaxBytes \div HeaderLen) :
        Len(Flatten(s)) <= MaxBytes }

\* --------------------------------------------------------------- metrics
Managers == {"mm1", "mm2"}
Metrics == {"count", "timer"}

\* MetricManager(prefix): the two managers' prefixes, '' being one.
prefix(m) == IF m = "mm1" THEN <<"vumi", "worker0">> ELSE << >>
\* Count(suffix) and Timer(suffix): '' is a suffix too.
suffix(x) == IF x = "count" THEN <<"my", "count">> ELSE << >>

\* Metric.name: None until the metric is managed, then a string.
NoName == [none |-> TRUE, str |-> << >>]
Named(str) == [none |-> FALSE, str |-> str]

\* Timer._start_time: None or a reading of the clock.
NotStarted == [none |-> TRUE, time |-> 0]
StartedAt(t) == [none |-> FALSE, time |-> t]

\* A call that returned v, and one that raised the exception exc.
\* The last call: n numbers the calls, on is the manager or metric called,
\* arg the metric passed to register, returned the number a poll returned
\* and msg the MetricMessage a publish sent.
NoCall ==
    [n |-> 0, op |-> "", on |-> "", arg |-> "", raised |-> "",
     returned |-> 0, msg |-> << >>]
Returned(op, on, arg, v) ==
    [n |-> call.n + 1, op |-> op, on |-> on, arg |-> arg, raised |-> "",
     returned |-> v, msg |-> << >>]
Published(on, msg) ==
    [n |-> call.n + 1, op |-> "_publish_metrics", on |-> on, arg |-> "",
     raised |-> "", returned |-> 0, msg |-> msg]
Raised(op, on, arg, exc) ==
    [n |-> call.n + 1, op |-> op, on |-> on, arg |-> arg, raised |-> exc,
     returned |-> 0, msg |-> << >>]

\* Metric.manage testing the name for truth, not for None.
manage_truthy(metric_name, pre, suf) ==
    IF metric_name.str # << >>
    THEN [raised |-> "MetricRegistrationError", name |-> metric_name]
    ELSE [raised |-> "", name |-> Named(pre \o suf)]

\* Metric.manage(prefix): the exception raised, if any, and the name after.
manage(metric_name, pre, suf) ==
    IF ~metric_name.none
    THEN [raised |-> "MetricRegistrationError", name |-> metric_name]
    ELSE [raised |-> "", name |-> Named(pre \o suf)]

\* Count.poll forgetting to reset the counter.
Count_poll_keeping(v) == [returned |-> v, value |-> v]

\* Count.poll: value, self._value = self._value, 0.
Count_poll(v) == [returned |-> v, value |-> 0]

\* Sum.add(amount).
Sum_add(v, n, amount) == [value |-> v + amount, count |-> n + 1]

\* Sum.poll with the default do_averaging = False: _func gives the value.
Sum_poll(v, n) == [returned |-> v, value |-> 0, count |-> 0]

\* The objects as their constructors leave them.
NewMetrics ==
    /\ name = [x \in Metrics |-> NoName]
    /\ metrics = [m \in Managers |-> << >>]
    /\ value = [x \in Metrics |-> 0]
    /\ count = 0
    /\ start_time = NotStarted
    /\ now = 0
    /\ call = NoCall
    /\ block = 0
    /\ incs = 0
    /\ polled = 0

\* ----------------------------------------------------------------- Init
Init ==
    /\ script \in [Conns -> Scripts]
    /\ \A c \in Conns : c # 1 => script[c] = << >>
    /\ sent = [c \in Conns |-> 0]
    /\ smsc = [c \in Conns |-> NewSmscServer]
    /\ data = [c \in Conns |-> None]
    /\ pc = [c \in Conns |-> "idle"]
    /\ transport = [c \in Conns |-> << >>]
    /\ logged = [c \in Conns |-> << >>]
    /\ closed = [c \in Conns |-> FALSE]
    /\ popped = [c \in Conns |-> << >>]
    /\ NewMetrics

\* -------------------------------------------------------------- actions
\* The reactor is single-threaded: a dataReceived call runs to its end
\* before another one starts.
ReactorIdle == \A c \in Conns : pc[c] = "idle"

\* dataReceived, line 75: the next k bytes of the peer's stream are appended.
DataReceived(c, k) ==
    /\ ReactorIdle
    /\ ~closed[c]
    /\ sent[c] + k <= Len(Stream(c))
    /\ smsc' = [smsc EXCEPT ![buildProtocol(c)].datastream =
                   @ \o SubSeq(Stream(c), sent[c] + 1, sent[c] + k)]
    /\ sent' = [sent EXCEPT ![c] = @ + k]
    /\ pc' = [pc EXCEPT ![c] = "pop"]
    /\ UNCHANGED <<metricVars, script, data, transport, logged, closed, popped>>

\* dataReceived with `if` for `while`: after one handleData the call
\* returns without looking for another frame.
PopData_if(c) ==
    /\ pc[c] = "pop"
    /\ LET self == buildProtocol(c)
           r == IF data[c] = None THEN popData(smsc[self].datastream)
                ELSE [data |-> None, datastream |-> smsc[self].datastream]
       IN  /\ smsc' = [smsc EXCEPT ![self].datastream = r.datastream]
           /\ data' = [data EXCEPT ![c] = r.data]
           /\ pc' = [pc EXCEPT ![c] = IF r.data = None THEN "idle" ELSE "handle"]
           /\ popped' = [popped EXCEPT ![c] =
                  IF r.data = None THEN @ ELSE Append(@, r.data.bytes)]
    /\ UNCHANGED <<metricVars, script, sent, transport, logged, closed>>

\* dataReceived, lines 76 and 79, with the loop test of line 77.
PopData(c) ==
    /\ pc[c] = "pop"
    /\ LET self == buildProtocol(c)
           r == popData(smsc[self].datastream)
       IN  /\ smsc' = [smsc EXCEPT ![self].datastream = r.datastream]
           /\ data' = [data EXCEPT ![c] = r.data]
           /\ pc' = [pc EXCEPT ![c] = IF r.data = None THEN "idle" ELSE "handle"]
           /\ popped' = [popped EXCEPT ![c] =
                  IF r.data = None THEN @ ELSE Append(@, r.data.bytes)]
    /\ UNCHANGED <<metricVars, script, sent, transport, logged, closed>>

\* handleData answering only a peer that has bound: before a bind with
\* success status was dispatched, a command other than a bind is dropped.
HandleData_bound_only(c) ==
    /\ pc[c] = "handle"
    /\ ~DecodeFault(data[c].bytes)
    /\ LET pdu == unpack_pdu(data[c].bytes)
           bound == \E i \in 1..Len(logged[c]) :
                       /\ logged[c][i].dir = "INCOMING"
                       /\ logged[c][i].pdu.command_id = "bind_transceiver"
                       /\ logged[c][i].pdu.command_status = "ESME_ROK"
       IN  \E message_id \in MsgIds :
             LET outs == IF bound \/ pdu.command_id = "bind_transceiver"
                         THEN handleData(pdu, message_id) ELSE << >>
             IN  /\ logged' = [logged EXCEPT ![c] =
                        Append(@, Incoming(pdu)) \o sendPDU_logged(outs)]
                 /\ transport' = [transport EXCEPT ![c] = @ \o outs]
                 /\ smsc' = [smsc EXCEPT ![buildProtocol(c)] =
                        attributes_after_handleData(@, pdu)]
    /\ pc' = [pc EXCEPT ![c] = "pop"]
    /\ UNCHANGED <<metricVars, script, sent, data, closed, popped>>

\* dataReceived, line 78: handleData(data) with every sendPDU it makes.
HandleData(c) ==
    /\ pc[c] = "handle"
    /\ ~DecodeFault(data[c].bytes)
    /\ LET pdu == unpack_pdu(data[c].bytes)
       IN  \E message_id \in MsgIds :
             LET outs == handleData(pdu, message_id)
             IN  /\ logged' = [logged EXCEPT ![c] =
                        Append(@, Incoming(pdu)) \o sendPDU_logged(outs)]
                 /\ transport' = [transport EXCEPT ![c] = @ \o outs]
                 /\ smsc' = [smsc EXCEPT ![buildProtocol(c)] =
                        attributes_after_handleData(@, pdu)]
    /\ pc' = [pc EXCEPT ![c] = "pop"]
    /\ UNCHANGED <<metricVars, script, sent, data, closed, popped>>

\* handleData's exception caught in the loop, which goes on with the next
\* frame on a connection that stays open.
HandleDataFails_swallowed(c) ==
    /\ pc[c] = "handle"
    /\ DecodeFault(data[c].bytes)
    /\ pc' = [pc EXCEPT ![c] = IF data[c].bytes = << >> THEN "idle" ELSE "pop"]
    /\ UNCHANGED <<metricVars, script, sent, smsc, data, transport, logged, closed, popped>>

\* unpack_pdu raises: the exception leaves dataReceived and the reactor
\* drops the connection.
HandleDataFails(c) ==
    /\ pc[c] = "handle"
    /\ DecodeFault(data[c].bytes)
    /\ pc' = [pc EXCEPT ![c] = "idle"]
    /\ data' = [data EXCEPT ![c] = None]
    /\ closed' = [closed EXCEPT ![c] = TRUE]
    /\ UNCHANGED <<metricVars, script, sent, smsc, transport, logged, popped>>

Next ==
    \E c \in Conns :
        \/ \E k \in 1..(Len(Stream(c)) - sent[c]) : DataReceived(c, k)
        \/ PopData(c)
        \/ HandleData(c)
        \/ HandleDataFails(c)

Spec == Init /\ [][Next]_vars

\* ------------------------------------------------------ derived notions
Idle(c) == pc[c] = "idle"

\* Length in bytes of the first n frames of the peer's script.
PrefixLen(c, n) == Len(Flatten(Take(script[c], n)))

\* How many frames of the script lie wholly in the bytes delivered so far.
Completed(c) ==
    LET full == { n \in 0..Len(script[c]) : PrefixLen(c, n) <= sent[c] }
    IN  CHOOSE n \in full : \A m \in full : m <= n

\* The peer sends valid frames only (each declares its own length, >= 16).
WellFormed(c) == \A i \in 1..Len(script[c]) : script[c][i] \in ValidFrames

IsIncoming(e) == e.dir = "INCOMING"
IsOutgoing(e) == e.dir = "OUTGOING"

\* The PDUs handleData was given so far, in order.
IncomingPdus(c) ==
    LET es == SelectSeq(logged[c], IsIncoming)
    IN  [i \in 1..Len(es) |-> es[i].pdu]

Dispatched(c) == Len(IncomingPdus(c))

\* The buffer as popData found it when it returned data[c].
BufferAtPop(c) == data[c].bytes \o smsc[c].datastream

\* --------------------------------------------------------------- claims
\* C1: framing composition.  When the peer sends valid frames only, then
\* for every way of splitting its stream into reads: the frames extracted
\* are exactly the frames of the script that are complete in the bytes
\* delivered, in the script's order, each extracted frame is byte for byte
\* the frame sent, and once the drain loop has returned the buffer holds
\* exactly the bytes of the partial frame that follows them.
C1_FramingComposition ==
    \A c \in Conns :
        WellFormed(c) =>
            LET n == Dispatched(c)
            IN  /\ n <= Completed(c)
                /\ \A i \in 1..n : IncomingPdus(c)[i] = unpack_pdu(script[c][i])
                /\ pc[c] = "handle" =>
                      /\ n < Completed(c)
                      /\ data[c] = Some(script[c][n + 1])
                      /\ smsc[c].datastream =
                            Drop(Delivered(c), PrefixLen(c, n + 1))
                /\ pc[c] = "pop" =>
                      smsc[c].datastream = Drop(Delivered(c), PrefixLen(c, n))
                /\ Idle(c) =>
                      /\ n = Completed(c)
                      /\ smsc[c].datastream =
                            Drop(Delivered(c), PrefixLen(c, n))

\* Two valid frames were extracted and dispatched and a strictly partial
\* third frame is left in the buffer.
C1_Witness ==
    \E c \in Conns :
        /\ WellFormed(c) /\ Idle(c)
        /\ Dispatched(c) = 2 /\ Completed(c) = 2
        /\ smsc[c].datastream # << >>
        /\ Len(script[c]) = 3
        /\ Len(smsc[c].datastream) < Len(script[c][3])

\* C2: popData returns a frame only when the buffer held at least as many
\* bytes as its first four bytes declare, and the frame is exactly that
\* many bytes; while a first valid frame is not yet whole nothing is
\* extracted, and once its last byte has arrived exactly it is extracted.
C2_NoPartialFrameLeaves ==
    \A c \in Conns :
        /\ pc[c] = "handle" =>
              /\ Len(BufferAtPop(c)) >= command_length_of(BufferAtPop(c))
              /\ Len(data[c].bytes) = command_length_of(BufferAtPop(c))
        /\ (script[c] # << >> /\ script[c][1] \in ValidFrames) =>
              /\ sent[c] < Len(script[c][1]) =>
                    /\ pc[c] # "handle"
                    /\ logged[c] = << >>
                    /\ smsc[c].datastream = Delivered(c)
              /\ (sent[c] = Len(script[c][1]) /\ Idle(c)) =>
                    /\ Dispatched(c) = 1
                    /\ smsc[c].datastream = << >>

\* The last byte of a first valid frame has arrived and popData has just
\* returned the whole frame.
C2_Witness ==
    \E c \in Conns :
        /\ script[c] # << >> /\ script[c][1] \in ValidFrames
        /\ sent[c] = Len(script[c][1])
        /\ pc[c] = "handle"
        /\ data[c] = Some(script[c][1])
        /\ logged[c] = << >>

\* C3 (as claimed): a length prefix below 16 at the head of the buffer
\* never yields a frame: whenever popData has returned a frame, the prefix
\* of the buffer it was taken from announced at least 16.
C3_ShortLengthYieldsNoFrame ==
    \A c \in Conns :
        pc[c] = "handle" => command_length_of(BufferAtPop(c)) >= HeaderLen

\* The PDUs sendPDU logged so far, in order.
OutgoingPdus(c) ==
    LET es == SelectSeq(logged[c], IsOutgoing)
    IN  [i \in 1..Len(es) |-> es[i].pdu]

DirectReplies == {"bind_transceiver_resp", "submit_sm_resp", "enquire_link_resp"}

\* The log entry of the command during whose dispatch entry j was written:
\* the last INCOMING entry before j.
ProvokedBy(c, j) ==
    { i \in 1..(j - 1) :
        /\ IsIncoming(logged[c][i])
        /\ \A k \in (i + 1)..(j - 1) : ~IsIncoming(logged[c][k]) }

\* handleData is about to be called with frame f on connection c, or has
\* just returned from that call.
Dispatching(c, f) == pc[c] = "handle" /\ data[c] = Some(f)
JustDispatched(c, f) == pc[c] = "pop" /\ data[c] = Some(f)

\* C4: every direct reply written on a connection (bind, submit or
\* link-check acknowledgment) carries the sequence number of the command
\* that provoked it, whatever was dispatched before; and what is written
\* is what was logged as outgoing.
C4_ReplyEchoesSequenceNumber ==
    \A c \in Conns :
        /\ transport[c] = OutgoingPdus(c)
        /\ \A j \in 1..Len(logged[c]) :
              (IsOutgoing(logged[c][j])
                 /\ logged[c][j].pdu.command_id \in DirectReplies) =>
                 /\ ProvokedBy(c, j) # {}
                 /\ \A i \in ProvokedBy(c, j) :
                       logged[c][j].pdu.sequence_number
                          = logged[c][i].pdu.sequence_number

\* A direct reply to a second command, whose sequence number, 7, differs
\* from the first command's.
C4_Witness ==
    \E c \in Conns : \E j \in 1..Len(logged[c]) :
        /\ IsOutgoing(logged[c][j])
        /\ logged[c][j].pdu.command_id \in DirectReplies
        /\ logged[c][j].pdu.sequence_number = 7
        /\ IsIncoming(logged[c][1])
        /\ logged[c][1].pdu.sequence_number = 1
        /\ \E i \in ProvokedBy(c, j) : i > 1

\* C5: dispatching a submit with success status and sequence number sq
\* writes exactly two PDUs, in this order and with nothing between them:
\* a submit acknowledgment with sequence number sq and an identifier X,
\* then a delivery notification whose body holds the same X and the status
\* DELIVRD.
C5_SubmitYieldsAckThenNotification ==
    [][ \A c \in Conns : \A sq \in SeqNums :
          (Dispatching(c, Frame(4, 0, sq, <<0>>)) /\ pc'[c] = "pop") =>
             \E X \in MsgIds :
                /\ Len(transport'[c]) = Len(transport[c]) + 2
                /\ Take(transport'[c], Len(transport[c])) = transport[c]
                /\ LET ack == transport'[c][Len(transport[c]) + 1]
                       dlr == transport'[c][Len(transport[c]) + 2]
                   IN  /\ ack.command_id = "submit_sm_resp"
                       /\ ack.sequence_number = sq
                       /\ ack.body.message_id = X
                       /\ dlr.command_id = "deliver_sm"
                       /\ dlr.body.short_message.id = X
                       /\ dlr.body.short_message.stat = "DELIVRD" ]_vars

\* A submit with sequence number 7 has just been dispatched and its two
\* PDUs are the last two written.
C5_Witness ==
    \E c \in Conns :
        /\ JustDispatched(c, Frame(4, 0, 7, <<0>>))
        /\ Len(transport[c]) >= 2
        /\ transport[c][Len(transport[c]) - 1].command_id = "submit_sm_resp"
        /\ transport[c][Len(transport[c]) - 1].sequence_number = 7
        /\ transport[c][Len(transport[c])].command_id = "deliver_sm"
        /\ transport[c][Len(transport[c])].body.short_message.id
              = transport[c][Len(transport[c]) - 1].body.message_id

\* The Session of a connection is what its SmscServer instance holds
\* besides the frame buffer: Bound once it holds anything, the bound
\* identity being what it holds.
SessionAttributes(c) == DOMAIN smsc[c] \ {"datastream"}
SessionState(c) == IF SessionAttributes(c) = {} THEN "Unbound" ELSE "Bound"
BoundIdentities(c) == { smsc[c][a] : a \in SessionAttributes(c) }

FrameCommand(f) == BE(SubSeq(f, 5, 8))
FrameStatus(f) == BE(SubSeq(f, 9, 12))

\* A valid frame that is a no-op for the dispatcher: its status is not 0,
\* or its command is none of bind (9), submit (4), link-check (21).
NoOpFrames ==
    { f \in ValidFrames : FrameStatus(f) # 0 \/ FrameCommand(f) \notin {9, 4, 21} }

\* C7: dispatching a command with a non-zero status, or with an identifier
\* other than bind, submit and link-check (an inbound delivery notification
\* included), writes nothing and leaves the instance, its Session and the
\* bytes still buffered, as it was.
C7_NoOpCommands ==
    [][ \A c \in Conns : \A f \in NoOpFrames :
          (Dispatching(c, f) /\ pc'[c] = "pop") =>
             /\ transport'[c] = transport[c]
             /\ smsc'[c] = smsc[c] ]_vars

\* A failed-status bind, submit and link-check, a delivery notification
\* and an unknown command are all among the no-op frames, and one of them
\* has just been dispatched with bytes still buffered behind it.
C7_Witness ==
    /\ { FrameCommand(f) : f \in { g \in NoOpFrames : FrameStatus(g) # 0 } }
          = {9, 4, 21, 3}
    /\ \E f \in NoOpFrames : FrameCommand(f) = 5 /\ FrameStatus(f) = 0
    /\ \E c \in Conns : \E f \in NoOpFrames :
          /\ JustDispatched(c, f)
          /\ FrameStatus(f) # 0
          /\ FrameCommand(f) = 21
          /\ smsc[c].datastream # << >>
          /\ transport[c] = << >>

\* C9: dispatching a link-check with success status and sequence number sq
\* writes exactly one PDU, the link-check acknowledgment with sequence
\* number sq, and changes nothing in the instance or its Session, whether
\* or not a successful bind was dispatched before.
C9_EnquireLinkYieldsOneAck ==
    [][ \A c \in Conns : \A sq \in SeqNums :
          (Dispatching(c, Frame(21, 0, sq, << >>)) /\ pc'[c] = "pop") =>
             /\ transport'[c] = Append(transport[c], EnquireLinkResp(sq))
             /\ smsc'[c] = smsc[c]
             /\ SessionState(c)' = SessionState(c) ]_vars

\* A link-check with sequence number 7 has just been acknowledged on a
\* connection on which a successful bind was dispatched before.
C9_Witness ==
    \E c \in Conns :
        /\ JustDispatched(c, Frame(21, 0, 7, << >>))
        /\ Len(transport[c]) = 2
        /\ transport[c][1].command_id = "bind_transceiver_resp"
        /\ transport[c][2] = EnquireLinkResp(7)

\* An outbound PDU with the message identifier it carries blanked: what it
\* is up to the value uuid.uuid4() returned.
UpToId(out) ==
    CASE out.command_id = "submit_sm_resp" ->
            [out EXCEPT !.body.message_id = 0]
      [] out.command_id = "deliver_sm" ->
            [out EXCEPT !.body.short_message.id = 0]
      [] OTHER -> out

\* The PDUs that dispatching the frames fs one after the other writes, up
\* to message identifiers: the concatenation of each frame's PDUs.
RECURSIVE WritesFor(_)
WritesFor(fs) ==
    IF fs = << >> THEN << >>
    ELSE LET outs == handleData(unpack_pdu(Head(fs)), 0)
         IN  [i \in 1..Len(outs) |-> UpToId(outs[i])] \o WritesFor(Tail(fs))

\* The log entries of the same dispatches: each frame's INCOMING entry
\* followed at once by the OUTGOING entries of its PDUs.
RECURSIVE EntriesFor(_)
EntriesFor(fs) ==
    IF fs = << >> THEN << >>
    ELSE LET pdu == unpack_pdu(Head(fs))
             outs == handleData(pdu, 0)
         IN  << Incoming(pdu) >>
             \o [i \in 1..Len(outs) |-> Outgoing(UpToId(outs[i]))]
             \o EntriesFor(Tail(fs))

\* C10: on a connection whose peer sends valid frames, frames are
\* dispatched one at a time in the order they complete in the byte stream:
\* when n frames were dispatched they are the first n of the stream, what
\* was written is the concatenation, in that order, of each frame's PDUs
\* (every PDU of frame k before frame k+1 is extracted), the frame held for
\* dispatch is frame n+1, and dataReceived returns only when every complete
\* frame, also of several in one read, was dispatched.
C10_WritesInFrameOrder ==
    \A c \in Conns :
        WellFormed(c) =>
            LET n == Dispatched(c)
            IN  /\ n <= Len(script[c])
                /\ [i \in 1..Len(transport[c]) |-> UpToId(transport[c][i])]
                      = WritesFor(Take(script[c], n))
                /\ [i \in 1..Len(logged[c]) |->
                        IF IsOutgoing(logged[c][i])
                        THEN Outgoing(UpToId(logged[c][i].pdu))
                        ELSE logged[c][i]]
                      = EntriesFor(Take(script[c], n))
                /\ pc[c] = "handle" =>
                      n < Len(script[c]) /\ data[c] = Some(script[c][n + 1])
                /\ Idle(c) => n = Completed(c)

\* The first frame, a submit, was dispatched and its two PDUs written while
\* the second frame, complete in the same read, is still in the buffer,
\* not yet extracted.
C10_Witness ==
    \E c \in Conns :
        /\ WellFormed(c)
        /\ Len(script[c]) >= 2
        /\ JustDispatched(c, script[c][1])
        /\ Dispatched(c) = 1
        /\ Completed(c) >= 2
        /\ Len(transport[c]) = 2
        /\ smsc[c].datastream = Drop(Delivered(c), PrefixLen(c, 1))
        /\ Len(smsc[c].datastream) >= Len(script[c][2])

C18_ByteConservation ==
    \A c \in Conns :
        Flatten(popped[c]) \o smsc[c].datastream = Delivered(c)

\* A valid frame and then a 4-byte span were returned from a malformed
\* stream, and bytes are still buffered.
C18_Witness ==
    \E c \in Conns :
        /\ ~WellFormed(c)
        /\ Len(popped[c]) = 2
        /\ popped[c][1] \in ValidFrames
        /\ Len(popped[c][2]) = 4
        /\ smsc[c].datastream # << >>

\* C19 (as claimed): every popData call that returns a frame strictly
\* shrinks the buffer: the buffer left is shorter than the buffer it was
\* taken from.
C19_PopShrinksBuffer ==
    \A c \in Conns :
        pc[c] = "handle" =>
            Len(smsc[c].datastream) < Len(BufferAtPop(c))

\* The binds with success status dispatched so far on c, in order.
IsSuccessfulBind(pdu) ==
    pdu.command_id = "bind_transceiver" /\ pdu.command_status = "ESME_ROK"
SuccessfulBinds(c) == SelectSeq(IncomingPdus(c), IsSuccessfulBind)

Written(c) == SubSeq(transport'[c], Len(transport[c]) + 1, Len(transport'[c]))

\* The submits and link-checks with success status the peer can send.
ServiceFrames ==
    { f \in ValidFrames : FrameStatus(f) = 0 /\ FrameCommand(f) \in {4, 21} }

\* C15: binding is not required.  Dispatching a submit or a link-check
\* with success status writes the PDUs the command always yields (two for a
\* submit, one for a link-check), the same whether or not a bind with
\* success status was dispatched before, and when none was the Session is
\* Unbound after the dispatch as before it.
C15_BindingNotRequired ==
    [][ \A c \in Conns : \A f \in ServiceFrames :
          (Dispatching(c, f) /\ pc'[c] = "pop") =>
             /\ Len(transport'[c]) >= Len(transport[c])
             /\ [i \in 1..Len(Written(c)) |-> UpToId(Written(c)[i])]
                   = WritesFor(<<f>>)
             /\ Len(Written(c)) = IF FrameCommand(f) = 4 THEN 2 ELSE 1
             /\ SuccessfulBinds(c) = << >> =>
                   /\ SessionState(c) = "Unbound"
                   /\ SessionState(c)' = "Unbound"
                   /\ SuccessfulBinds(c)' = << >> ]_vars

\* A submit was dispatched on a connection on which no bind was ever
\* dispatched, and its acknowledgment and delivery notification are the
\* two PDUs written.
C15_Witness ==
    \E c \in Conns :
        /\ JustDispatched(c, Frame(4, 0, 7, <<0>>))
        /\ SuccessfulBinds(c) = << >>
        /\ Dispatched(c) = 1
        /\ Len(transport[c]) = 2
        /\ transport[c][1].command_id = "submit_sm_resp"
        /\ transport[c][2].command_id = "deliver_sm"
        /\ SessionState(c) = "Unbound"

\* The positions in the log of the submits with success status dispatched
\* on c; the two entries after each are its acknowledgment and its
\* delivery notification.
SubmitEntries(c) ==
    { i \in 1..Len(logged[c]) :
        /\ IsIncoming(logged[c][i])
        /\ logged[c][i].pdu.command_id = "submit_sm"
        /\ logged[c][i].pdu.command_status = "ESME_ROK" }

\* C16: the delivery notification's sequence number is the server's own,
\* independent of the request.  Of two submits dispatched on a connection
\* that differ only in their sequence number, the delivery notifications
\* carry the same sequence number (the constant the server assigns) while
\* the acknowledgments carry the two different request sequence numbers.
C16_NotificationSequenceIsServerAssigned ==
    \A c \in Conns : \A i, j \in SubmitEntries(c) :
        LET req1 == logged[c][i].pdu
            req2 == logged[c][j].pdu
        IN  (/\ req1.sequence_number # req2.sequence_number
             /\ req1.body = req2.body) =>
               /\ j + 2 <= Len(logged[c]) /\ i + 2 <= Len(logged[c])
               /\ logged[c][i + 1].pdu.command_id = "submit_sm_resp"
               /\ logged[c][j + 1].pdu.command_id = "submit_sm_resp"
               /\ logged[c][i + 1].pdu.sequence_number = req1.sequence_number
               /\ logged[c][j + 1].pdu.sequence_number = req2.sequence_number
               /\ logged[c][i + 2].pdu.command_id = "deliver_sm"
               /\ logged[c][j + 2].pdu.command_id = "deliver_sm"
               /\ logged[c][i + 2].pdu.sequence_number
                     = logged[c][j + 2].pdu.sequence_number
               /\ logged[c][i + 2].pdu.sequence_number = DeliverySeq

\* Two submits that differ only in their sequence numbers, 7 and 1, were
\* dispatched on one connection and the four PDUs written: acknowledgments
\* with 7 and 1, notifications both with the server's number.
C16_Witness ==
    \E c \in Conns :
        /\ script[c] = << Frame(4, 0, 7, <<0>>), Frame(4, 0, 1, <<0>>) >>
        /\ Dispatched(c) = 2
        /\ SubmitEntries(c) = {1, 4}
        /\ Len(transport[c]) = 4
        /\ transport[c][1].sequence_number = 7
        /\ transport[c][3].sequence_number = 1
        /\ transport[c][2].command_id = "deliver_sm"
        /\ transport[c][4].command_id = "deliver_sm"
        /\ transport[c][2].sequence_number = transport[c][4].sequence_number

\* ------------------------------------------- two connections being served
\* Both peers send: a link-check, a submit, a span the codec rejects and a
\* span with a length prefix of 0, in any order, MultiBytes bytes at most
\* over the two connections.
MultiBytes == 50

MultiFrames ==
    { Frame(21, 0, 7, << >>), Frame(4, 0, 1, <<0>>),
      Frame(9, 0, 7, <<102>>), RawFrame(0, 21, 0, 7, << >>) }

MultiScripts == SeqsUpTo(MultiFrames, MultiBytes \div HeaderLen)

InitMulti ==
    /\ script \in [Conns -> MultiScripts]
    /\ Len(Flatten(script[1])) + Len(Flatten(script[2])) <= MultiBytes
    /\ sent = [c \in Conns |-> 0]
    /\ smsc = [c \in Conns |-> NewSmscServer]
    /\ data = [c \in Conns |-> None]
    /\ pc = [c \in Conns |-> "idle"]
    /\ transport = [c \in Conns |-> << >>]
    /\ logged = [c \in Conns |-> << >>]
    /\ closed = [c \in Conns |-> FALSE]
    /\ popped = [c \in Conns |-> << >>]
    /\ NewMetrics

SpecMulti == InitMulti /\ [][Next]_vars

\* What one connection comes to when its instance, alone, is handed the
\* bytes in one dataReceived: the while loop run to its end, with the
\* buffer left, the PDUs written (up to message identifiers) and whether
\* unpack_pdu raised.
RECURSIVE Drain(_, _)
Drain(datastream, written) ==
    LET r == popData(datastream)
    IN  IF r.data = None
        THEN [ datastream |-> datastream, transport |-> written,
               closed |-> FALSE ]
        ELSE IF DecodeFault(r.data.bytes)
        THEN [ datastream |-> r.datastream, transport |-> written,
               closed |-> TRUE ]
        ELSE LET outs == handleData(unpack_pdu(r.data.bytes), 0)
             IN  Drain(r.datastream,
                       written \o [i \in 1..Len(outs) |-> UpToId(outs[i])])

\* C12: connection independence.  Whenever connection c is between two
\* reads, under every interleaving of the reads of the two connections and
\* whatever happened on the other one (a decode fault and its close
\* included), the buffer of c's instance, its Session, the PDUs written on
\* c up to message identifiers and whether c was closed are what the bytes
\* received on c alone determine.
C12_ConnectionIndependence ==
    \A c \in Conns :
        Idle(c) =>
            LET self == smsc[buildProtocol(c)]
                alone == Drain(Delivered(c), << >>)
            IN  /\ self.datastream = alone.datastream
                /\ [i \in 1..Len(transport[c]) |-> UpToId(transport[c][i])]
                      = alone.transport
                /\ closed[c] = alone.closed
                /\ DOMAIN self = {"datastream"}

\* One connection was closed on a decode fault with a whole frame left in
\* its buffer, while the other, still open, has had its submit answered
\* and holds the first bytes of its next frame.
C12_Witness ==
    \E c, d \in Conns :
        /\ c # d
        /\ ReactorIdle
        /\ closed[c] /\ ~closed[d]
        /\ Len(smsc[c].datastream) >= HeaderLen
        /\ transport[c] = << >>
        /\ Len(transport[d]) = 2
        /\ transport[d][1].command_id = "submit_sm_resp"
        /\ smsc[d].datastream # << >>

\* ------------------------------------------------- calls on the metrics
MayCall == call.n < MaxCalls

\* MetricManager.register(metric): manage, then append.
Register(m, x) ==
    /\ MayCall
    /\ LET r == manage(name[x], prefix(m), suffix(x))
       IN  IF r.raised # ""
           THEN /\ call' = Raised("register", m, x, r.raised)
                /\ UNCHANGED <<name, metrics>>
           ELSE /\ name' = [name EXCEPT ![x] = r.name]
                /\ metrics' = [metrics EXCEPT ![m] = Append(@, x)]
                /\ call' = Returned("register", m, x, 0)
    /\ UNCHANGED <<serverVars, value, count, start_time, now, block, incs,
                   polled>>

\* Count.inc().
Inc ==
    /\ MayCall
    /\ value' = [value EXCEPT !["count"] = @ + 1]
    /\ incs' = incs + 1
    /\ call' = Returned("inc", "count", "", 0)
    /\ UNCHANGED <<serverVars, name, metrics, count, start_time, now, block,
                   polled>>

\* metric.poll() of each metric of the list in turn: the datapoints, the
\* values and the timer's count left, and what the Count's polls returned.
RECURSIVE PollEach(_, _, _, _, _)
PollEach(list, vals, n, msg, got) ==
    IF list = << >>
    THEN [msg |-> msg, value |-> vals, count |-> n, polled |-> got]
    ELSE LET x == Head(list)
             r == IF x = "count" THEN Count_poll(vals[x])
                  ELSE Sum_poll(vals[x], n)
         IN  PollEach(Tail(list),
                      [vals EXCEPT ![x] = r.value],
                      IF x = "count" THEN n ELSE r.count,
                      Append(msg, [name |-> name[x], time |-> now,
                                   value |-> r.returned]),
                      IF x = "count" THEN got + r.returned ELSE got)

\* metric.poll() called directly: Count.poll or, for the timer, Sum.poll.
Poll(x) ==
    /\ MayCall
    /\ LET r == PollEach(<<x>>, value, count, << >>, 0)
       IN  /\ value' = r.value
           /\ count' = r.count
           /\ polled' = polled + r.polled
           /\ call' = Returned("poll", x, "", r.msg[1].value)
    /\ UNCHANGED <<serverVars, name, metrics, start_time, now, block, incs>>

\* MetricManager._publish_metrics, the LoopingCall's function.
PublishMetrics(m) ==
    /\ MayCall
    /\ LET r == PollEach(metrics[m], value, count, << >>, 0)
       IN  /\ value' = r.value
           /\ count' = r.count
           /\ polled' = polled + r.polled
           /\ call' = Published(m, r.msg)
    /\ UNCHANGED <<serverVars, name, metrics, start_time, now, block, incs>>

\* Timer.start overwriting the start time of a timer already started.
Timer_start_restarting(st, t) == [raised |-> "", start_time |-> StartedAt(t)]

\* Timer.start(): the exception raised, if any, and _start_time after.
Timer_start(st, t) ==
    IF ~st.none
    THEN [raised |-> "TimerAlreadyStartedError", start_time |-> st]
    ELSE [raised |-> "", start_time |-> StartedAt(t)]

\* Timer.stop(): time.time() - None raises TypeError before anything is
\* assigned; otherwise the duration is added with Sum.add.
Timer_stop(st, v, n, t) ==
    IF st.none
    THEN [raised |-> "TypeError", start_time |-> st, value |-> v, count |-> n]
    ELSE LET duration == t - st.time
             a == Sum_add(v, n, duration)
         IN  [raised |-> "", start_time |-> NotStarted, value |-> a.value,
              count |-> a.count]

TimerStart ==
    /\ MayCall
    /\ LET r == Timer_start(start_time, now)
       IN  /\ start_time' = r.start_time
           /\ call' = IF r.raised # "" THEN Raised("start", "timer", "", r.raised)
                      ELSE Returned("start", "timer", "", 0)
    /\ UNCHANGED <<serverVars, name, metrics, value, count, now, block, incs,
                   polled>>

TimerStop ==
    /\ MayCall
    /\ LET r == Timer_stop(start_time, value["timer"], count, now)
       IN  /\ start_time' = r.start_time
           /\ value' = [value EXCEPT !["timer"] = r.value]
           /\ count' = r.count
           /\ call' = IF r.raised # "" THEN Raised("stop", "timer", "", r.raised)
                      ELSE Returned("stop", "timer", "", 0)
    /\ UNCHANGED <<serverVars, name, metrics, now, block, incs, polled>>

\* `with timer:` is entered: __enter__ calls start; when start raises the
\* block is not entered.
TimerEnter ==
    /\ MayCall
    /\ block < MaxDepth
    /\ LET r == Timer_start(start_time, now)
       IN  /\ start_time' = r.start_time
           /\ block' = IF r.raised # "" THEN block ELSE block + 1
           /\ call' = IF r.raised # ""
                      THEN Raised("__enter__", "timer", "", r.raised)
                      ELSE Returned("__enter__", "timer", "", 0)
    /\ UNCHANGED <<serverVars, name, metrics, value, count, now, incs, polled>>

\* The `with timer:` block is left, its body having raised or not:
\* __exit__ calls stop and returns False, so the body's exception goes on.
TimerExit(body_raised) ==
    /\ MayCall
    /\ block > 0
    /\ LET r == Timer_stop(start_time, value["timer"], count, now)
       IN  /\ start_time' = r.start_time
           /\ value' = [value EXCEPT !["timer"] = r.value]
           /\ count' = r.count
           /\ call' = IF r.raised # ""
                      THEN Raised("__exit__", "timer", "", r.raised)
                      ELSE IF body_raised
                      THEN Raised("__exit__", "timer", "", "BodyError")
                      ELSE Returned("__exit__", "timer", "", 0)
    /\ block' = block - 1
    /\ UNCHANGED <<serverVars, name, metrics, now, incs, polled>>

\* The clock time.time() reads goes on.
Tick ==
    /\ now < MaxClock
    /\ now' = now + 1
    /\ UNCHANGED <<serverVars, name, metrics, value, count, start_time, call,
                   block, incs, polled>>

\* No connection is being served while the metrics are used.
InitMetrics ==
    /\ script = [c \in Conns |-> << >>]
    /\ sent = [c \in Conns |-> 0]
    /\ smsc = [c \in Conns |-> NewSmscServer]
    /\ data = [c \in Conns |-> None]
    /\ pc = [c \in Conns |-> "idle"]
    /\ transport = [c \in Conns |-> << >>]
    /\ logged = [c \in Conns |-> << >>]
    /\ closed = [c \in Conns |-> FALSE]
    /\ popped = [c \in Conns |-> << >>]
    /\ NewMetrics

NextMetrics ==
    \/ \E m \in Managers : \E x \in Metrics : Register(m, x)
    \/ Inc
    \/ \E x \in Metrics : Poll(x)
    \/ \E m \in Managers : PublishMetrics(m)
    \/ TimerStart
    \/ TimerStop
    \/ TimerEnter
    \/ \E body_raised \in BOOLEAN : TimerExit(body_raised)
    \/ Tick

SpecMetrics == InitMetrics /\ [][NextMetrics]_vars

\* The step is a call of op on the object `on`.
Calls(op, on) ==
    call'.n = call.n + 1 /\ call'.op = op /\ call'.on = on

\* The managers whose list holds metric x, each as often as it holds it.
Registrations(x) ==
    { <<m, i>> \in Managers \X (1..MaxCalls) :
        i <= Len(metrics[m]) /\ metrics[m][i] = x }

\* C13: a metric can be registered with only one metric set.  The first
\* register(metric), on a metric whose name is None, sets the name to
\* prefix + suffix and appends the metric to that manager's list; any later
\* register of it, with the same or another manager, raises
\* MetricRegistrationError and leaves the name and every manager's list
\* unchanged.  So a metric is in one list at most, once, and in one exactly
\* when it has a name.
C13_RegisterOnce ==
    /\ [](\A x \in Metrics :
            Cardinality(Registrations(x)) = IF name[x].none THEN 0 ELSE 1)
    /\ [][ \A m \in Managers : \A x \in Metrics :
             (Calls("register", m) /\ call'.arg = x) =>
                IF Registrations(x) = {}
                THEN /\ call'.raised = ""
                     /\ name' = [name EXCEPT ![x] =
                                    Named(prefix(m) \o suffix(x))]
                     /\ metrics' = [metrics EXCEPT ![m] = Append(@, x)]
                ELSE /\ call'.raised = "MetricRegistrationError"
                     /\ name' = name
                     /\ metrics' = metrics ]_vars

\* The metric whose name is '' (empty prefix, empty suffix) was registered
\* a second time with the manager that holds it, after the other metric
\* was refused by the other manager; the call raised and the lists are as
\* they were.
C13_Witness ==
    /\ call.op = "register" /\ call.on = "mm2" /\ call.arg = "timer"
    /\ call.raised = "MetricRegistrationError"
    /\ call.n = 4
    /\ name["timer"] = Named(<< >>)
    /\ name["count"] = Named(<<"vumi", "worker0", "my", "count">>)
    /\ metrics = [m \in Managers |->
                     IF m = "mm1" THEN <<"count">> ELSE <<"timer">>]

\* C17: Count loses and double-counts nothing across polls.  Each poll of
\* the Count, made directly or by a manager's publish, returns the number
\* of inc() calls since the previous poll and resets the counter to zero;
\* a publish of a manager that does not hold the Count leaves it alone;
\* and the sum of all values polled plus the counter always equals the
\* number of inc() calls.
C17_CountConserved ==
    /\ [](polled + value["count"] = incs)
    /\ [][ /\ Calls("poll", "count") =>
                /\ call'.returned = incs - polled
                /\ value'["count"] = 0
           /\ \A m \in Managers :
                Calls("_publish_metrics", m) =>
                   /\ Len(call'.msg) = Len(metrics[m])
                   /\ \A i \in 1..Len(metrics[m]) :
                         metrics[m][i] = "count" =>
                            /\ call'.msg[i].value = incs - polled
                            /\ call'.msg[i].name = name["count"]
                            /\ value'["count"] = 0
                   /\ Registrations("count") \cap ({m} \X (1..MaxCalls)) = {}
                         => value'["count"] = value["count"]
           /\ Calls("inc", "count") =>
                /\ value'["count"] = value["count"] + 1
                /\ polled' = polled ]_vars

\* Two incs were made with a direct poll between them, and the manager's
\* publish has just polled the second.
C17_Witness ==
    /\ call.op = "_publish_metrics"
    /\ call.msg # << >>
    /\ call.msg[1].value = 1
    /\ call.msg[1].name = Named(<<"vumi", "worker0", "my", "count">>)
    /\ incs = 2
    /\ polled = 2
    /\ value["count"] = 0

\* C20: the Timer's start/stop protocol.  start() or __enter__ on an idle
\* timer makes it started at the present time; on a started timer it
\* raises TimerAlreadyStartedError and leaves the start time, the sum and
\* the count unchanged.  stop() on a started timer adds exactly one
\* duration to the sum, increments the count by one and makes the timer
\* idle.  Leaving a `with timer:` block leaves the timer idle, whether or
\* not its body raised, with the duration added if the timer was started.
C20_TimerProtocol ==
    [][ \A op \in {"start", "__enter__", "stop", "__exit__"} :
          Calls(op, "timer") =>
            LET started == ~start_time.none
                duration == now - start_time.time
            IN  /\ (op \in {"start", "__enter__"} /\ ~started) =>
                      /\ call'.raised = ""
                      /\ start_time' = StartedAt(now)
                      /\ value' = value /\ count' = count
                /\ (op \in {"start", "__enter__"} /\ started) =>
                      /\ call'.raised = "TimerAlreadyStartedError"
                      /\ start_time' = start_time
                      /\ value' = value /\ count' = count
                /\ (op \in {"stop", "__exit__"} /\ started) =>
                      /\ call'.raised \in {"", "BodyError"}
                      /\ value' = [value EXCEPT !["timer"] = @ + duration]
                      /\ count' = count + 1
                      /\ start_time' = NotStarted
                /\ op = "__exit__" =>
                      /\ start_time' = NotStarted
                      /\ block' = block - 1 ]_vars

\* The timer was started and stopped, then a `with timer:` block was
\* entered and left one tick later by an exception of its body: the timer
\* is idle, two durations were added, the second of one tick.
C20_Witness ==
    /\ call.op = "__exit__"
    /\ call.raised = "BodyError"
    /\ call.n = 4
    /\ start_time = NotStarted
    /\ count = 2
    /\ value["timer"] = 1
    /\ block = 0

====
